---- MODULE Spec2Model ----
(***************************************************************************)
(* A model of src/functions.py: the quote-corpus utilities chunkify,       *)
(* find_csv_filenames, get_quotes, make_csv, combining_yearly_quotes,      *)
(* high_probability_quotes, create_org_df, add_polarity_score_to_df and    *)
(* add_sentiment_category.                                                 *)
(*                                                                         *)
(* Strings that the code builds, cuts or matches (file names, the probas   *)
(* column) are sequences of one-character strings.  A DataFrame is a       *)
(* record [cols, rows]: the column names in order and one tuple of values  *)
(* per row.  The directory Data/ is a function from file name to file.     *)
(***************************************************************************)
EXTENDS Integers, Sequences, FiniteSets, TLC

\* ------------------------------------------------------------------ bounds
MaxRows == 3        \* rows of a chunkify source
MaxRaceRows == 2    \* rows of each source of two racing chunkify invocations
MaxChunk == 2       \* largest chunk_size tried
MaxFiles == 3       \* files of a directory listing
MaxTable == 2       \* rows of a table handed to a table function
MaxCalls == 3       \* table-function calls in one run
MaxEnts == 2        \* entities the recognizer finds in one quotation

\* ----------------------------------------------------------------- strings
Digits == <<"0", "1", "2", "3", "4", "5", "6", "7", "8", "9">>

DigitChar(d) == Digits[d + 1]

\* str(n) for a non-negative int: its decimal digits
RECURSIVE str(_)
str(n) == IF n < 10 THEN <<DigitChar(n)>> ELSE str(n \div 10) \o <<DigitChar(n % 10)>>

\* s.startswith(prefix)
startswith(s, prefix) ==
    /\ Len(prefix) <= Len(s)
    /\ SubSeq(s, 1, Len(prefix)) = prefix

\* s.endswith(suffix)
endswith(s, suffix) ==
    /\ Len(suffix) <= Len(s)
    /\ SubSeq(s, Len(s) - Len(suffix) + 1, Len(s)) = suffix

Min(a, b) == IF a <= b THEN a ELSE b

\* The elements of a sequence
Range(s) == {s[i] : i \in 1..Len(s)}

\* All sequences over S of length 0..n
SeqUpTo(S, n) == UNION {[1..k -> S] : k \in 0..n}

\* Concatenation of a sequence of sequences
RECURSIVE Flatten(_)
Flatten(ss) == IF ss = <<>> THEN <<>> ELSE Head(ss) \o Flatten(Tail(ss))

\* -------------------------------------------------------------- file names
DataDir == <<"D", "a", "t", "a", "/">>
ExtCsv == <<".", "c", "s", "v">>
ExtBz2 == <<".", "b", "z", "2">>

\* --------------------------------------------------------------- DataFrames
\* DataFrame.to_csv(path, index=False): a header line, then one line per row
to_csv(df) == <<df.cols>> \o df.rows

\* pd.read_csv of that text
read_csv_text(text) == [cols |-> Head(text), rows |-> Tail(text)]

\* bz2.compress(data, compression_level) and its inverse
compression_level == 9

bz2_compress(data, level) == [magic |-> "BZh", level |-> level, payload |-> data]

bz2_decompress(blob) == blob.payload

\* The column of a DataFrame: position of the name in cols (0 when absent)
ColIndex(df, name) ==
    IF \E i \in 1..Len(df.cols) : df.cols[i] = name
    THEN CHOOSE i \in 1..Len(df.cols) : df.cols[i] = name
    ELSE 0

\* -------------------------------------------------------------------- state
VARIABLES
    fs,            \* the files of Data/: path -> [data, by] (by: the invocation that wrote it, 0: earlier)
    pc,            \* chunkify: each invocation's position
    source,        \* chunkify: the rows of the file at filepath
    chunk_size,    \* chunkify: argument
    outputname,    \* chunkify: argument
    batch_no,      \* chunkify: local
    reader,        \* chunkify: rows the JsonReader has handed out so far
    chunk,         \* chunkify: loop variable
    compressed,    \* chunkify: local
    spacy_nlp,     \* the recognizer: quotation -> its entities (text, label_)
    sid,           \* the analyzer: quotation -> compound score, in hundredths
    heap,          \* the DataFrames alive in the caller: id -> DataFrame
    call           \* the last call of a function other than chunkify, with its result

chunkVars == <<pc, source, chunk_size, outputname, batch_no, reader, chunk, compressed>>
tableVars == <<spacy_nlp, sid, heap>>
vars == <<fs, pc, source, chunk_size, outputname, batch_no, reader, chunk, compressed,
          spacy_nlp, sid, heap, call>>

NoCall == [fn |-> "none"]
NoTables == spacy_nlp = <<>> /\ sid = <<>> /\ heap = <<>>

\* ----------------------------------------------------------------- chunkify
Procs == {1, 2}

\* The JSON-lines schema of the source and its rows
ChunkCols == <<"quoteID", "speaker">>
ChunkRowPool == {<<"q1", "A">>, <<"q2", "B">>}

\* outputname values tried
OutputNames == {<<"q", "u", "o", "t", "e", "s", "-", "2", "0", "2", "0">>}

\* Variant: the path without the batch number
OutputPathShared(name, n) == DataDir \o name \o ExtCsv

\* line 27: output = 'Data/' + outputname + '-' + str(batch_no) + '.csv'
OutputPath(name, n) == DataDir \o name \o <<"-">> \o str(n) \o ExtCsv

output(p) == OutputPath(outputname[p], batch_no[p])

\* line 34: destination_file = output + '.bz2'
destination_file(p) == output(p) \o ExtBz2

\* Variant: a chunk one row short
NextRowsShort(src, done, size) == SubSeq(src, done + 1, Min(done + size, Len(src)) - 1)

\* line 22: the next chunk of pd.read_json(..., chunksize=chunk_size, lines=True)
NextRows(src, done, size) == SubSeq(src, done + 1, Min(done + size, Len(src)))

\* A file written to path by invocation p
WriteFile(path, data, p) ==
    [f \in DOMAIN fs \cup {path} |-> IF f = path THEN [data |-> data, by |-> p] ELSE fs[f]]

\* os.remove(path), the file being there
RemoveFile(path) == [f \in DOMAIN fs \ {path} |-> fs[f]]

\* line 22: the for loop asks the reader for the next chunk, or ends
NextChunk(p) ==
    /\ pc[p] = "for"
    /\ IF reader[p] < Len(source[p])
       THEN /\ chunk' = [chunk EXCEPT ![p] =
                           [cols |-> ChunkCols,
                            rows |-> NextRows(source[p], reader[p], chunk_size[p])]]
            /\ reader' = [reader EXCEPT ![p] = Min(reader[p] + chunk_size[p], Len(source[p]))]
            /\ pc' = [pc EXCEPT ![p] = "to_csv"]
       ELSE /\ pc' = [pc EXCEPT ![p] = "done"]
            /\ UNCHANGED <<chunk, reader>>
    /\ UNCHANGED <<fs, source, chunk_size, outputname, batch_no, compressed, tableVars, call>>

\* line 29: chunk.to_csv(output, index=False)
ToCsv(p) ==
    /\ pc[p] = "to_csv"
    /\ fs' = WriteFile(output(p), to_csv(chunk[p]), p)
    /\ pc' = [pc EXCEPT ![p] = "compress"]
    /\ UNCHANGED <<source, chunk_size, outputname, batch_no, reader, chunk, compressed,
                   tableVars, call>>

\* lines 36-38: open(source_file, 'rb'), bz2.compress(data.read(), compression_level);
\* open raises FileNotFoundError when the file is gone
Compress(p) ==
    /\ pc[p] = "compress"
    /\ IF output(p) \in DOMAIN fs
       THEN /\ compressed' = [compressed EXCEPT ![p] =
                                 bz2_compress(fs[output(p)].data, compression_level)]
            /\ pc' = [pc EXCEPT ![p] = "write"]
       ELSE /\ pc' = [pc EXCEPT ![p] = "FileNotFoundError"]
            /\ UNCHANGED compressed
    /\ UNCHANGED <<fs, source, chunk_size, outputname, batch_no, reader, chunk, tableVars, call>>

\* lines 39-42: open(destination_file, "wb"), write, close
WriteBz2(p) ==
    /\ pc[p] = "write"
    /\ fs' = WriteFile(destination_file(p), compressed[p], p)
    /\ pc' = [pc EXCEPT ![p] = "remove"]
    /\ UNCHANGED <<source, chunk_size, outputname, batch_no, reader, chunk, compressed,
                   tableVars, call>>

\* Variant: the .csv file is left on disk
RemoveKeep(p) ==
    /\ pc[p] = "remove"
    /\ IF output(p) \in DOMAIN fs
       THEN /\ batch_no' = [batch_no EXCEPT ![p] = batch_no[p] + 1]
            /\ pc' = [pc EXCEPT ![p] = "for"]
       ELSE /\ pc' = [pc EXCEPT ![p] = "FileNotFoundError"]
            /\ UNCHANGED batch_no
    /\ UNCHANGED <<fs, source, chunk_size, outputname, reader, chunk, compressed, tableVars, call>>

\* lines 45-51: os.remove(output), which raises FileNotFoundError when the file is
\* gone, then batch_no += 1
Remove(p) ==
    /\ pc[p] = "remove"
    /\ IF output(p) \in DOMAIN fs
       THEN /\ fs' = RemoveFile(output(p))
            /\ batch_no' = [batch_no EXCEPT ![p] = batch_no[p] + 1]
            /\ pc' = [pc EXCEPT ![p] = "for"]
       ELSE /\ pc' = [pc EXCEPT ![p] = "FileNotFoundError"]
            /\ UNCHANGED <<fs, batch_no>>
    /\ UNCHANGED <<source, chunk_size, outputname, reader, chunk, compressed, tableVars, call>>

\* Files left in Data/ by earlier runs
StaleCsv == [cols |-> ChunkCols, rows |-> <<<<"q0", "Z">>>>]
StaleDirs ==
    LET name == CHOOSE n \in OutputNames : TRUE
        old(path, data) == [f \in {path} |-> [data |-> data, by |-> 0]]
    IN {<<>>,
        old(OutputPath(name, 1) \o ExtBz2, bz2_compress(to_csv(StaleCsv), compression_level)),
        old(OutputPath(name, MaxRows + 1), to_csv(StaleCsv))}

\* The invocations in Running start; the others never run
ChunkInit(Running, Dirs, maxRows) ==
    /\ fs \in Dirs
    /\ pc = [p \in Procs |-> IF p \in Running THEN "for" ELSE "off"]
    /\ source \in [Procs -> SeqUpTo(ChunkRowPool, maxRows)]
    /\ \A p \in Procs \ Running : source[p] = <<>>
    /\ chunk_size \in [Procs -> 1..MaxChunk]
    /\ \A p \in Procs \ Running : chunk_size[p] = 1
    /\ outputname \in [Procs -> OutputNames]
    /\ batch_no = [p \in Procs |-> 1]
    /\ reader = [p \in Procs |-> 0]
    /\ chunk = [p \in Procs |-> [cols |-> <<>>, rows |-> <<>>]]
    /\ compressed = [p \in Procs |-> <<>>]
    /\ NoTables
    /\ call = NoCall

ChunkStep(p) ==
    \/ NextChunk(p)
    \/ ToCsv(p)
    \/ Compress(p)
    \/ WriteBz2(p)
    \/ Remove(p)

\* One invocation of chunkify, alone
Init == ChunkInit({1}, StaleDirs, MaxRows)
Next == ChunkStep(1)
Spec == Init /\ [][Next]_vars

\* Two invocations of chunkify at the same time
InitRace == ChunkInit(Procs, {<<>>}, MaxRaceRows)
NextRace == \E p \in Procs : ChunkStep(p)
SpecRace == InitRace /\ [][NextRace]_vars

\* ------------------------------------------------------- chunkify: claims
\* 'Data/<outputname>-<n>.csv.bz2', written out
ChunkFileName(name, n) ==
    <<"D", "a", "t", "a", "/">> \o name \o <<"-">> \o str(n) \o <<".", "c", "s", "v", ".", "b", "z", "2">>

\* The rows of a compressed chunk file
ChunkFileRows(path) == read_csv_text(bz2_decompress(fs[path].data)).rows

\* The .csv.bz2 files invocation p wrote, and the .csv files of p still there
Bz2FilesOf(p) == {f \in DOMAIN fs : fs[f].by = p /\ endswith(f, <<".", "b", "z", "2">>)}
CsvFilesOf(p) == {f \in DOMAIN fs : fs[f].by = p /\ endswith(f, <<".", "c", "s", "v">>)}

\* C1: when chunkify returns, it has written exactly the ceil(R / C) files
\* Data/<outputname>-<n>.csv.bz2, n = 1..ceil(R / C), and their rows, concatenated
\* in increasing n, are the source's rows in the source's order.
C1_ChunksReproduceSource ==
    pc[1] = "done" =>
        LET R == Len(source[1])
            C == chunk_size[1]
            K == (R + C - 1) \div C
        IN /\ Bz2FilesOf(1) = {ChunkFileName(outputname[1], n) : n \in 1..K}
           /\ Flatten([n \in 1..K |-> ChunkFileRows(ChunkFileName(outputname[1], n))]) = source[1]

\* A run of several chunks whose last chunk is partial has returned
C1_Witness ==
    /\ pc[1] = "done"
    /\ Len(source[1]) > chunk_size[1]
    /\ Len(source[1]) % chunk_size[1] # 0
    /\ Cardinality(Bz2FilesOf(1)) >= 2

\* C2: between batches and after the return no .csv file the call created is on
\* disk, and every batch already left has its .csv.bz2.
C2_NoIntermediateCsv ==
    pc[1] \in {"for", "done"} =>
        /\ CsvFilesOf(1) = {}
        /\ \A n \in 1..(batch_no[1] - 1) : ChunkFileName(outputname[1], n) \in Bz2FilesOf(1)

\* A run of three batches or more has returned
C2_Witness ==
    /\ pc[1] = "done"
    /\ batch_no[1] >= 4
    /\ Cardinality(Bz2FilesOf(1)) >= 3

\* Batch n of invocation p's source
Batch(p, n) == NextRows(source[p], (n - 1) * chunk_size[p], chunk_size[p])

\* C9: two invocations with one outputname share the paths of their batches and
\* nothing keeps them apart: an invocation fails only on a .csv the other one has
\* removed, and a .csv.bz2 of batch n holds batch n of either invocation's source.
C9_RaceOutcomes ==
    \A p \in Procs : \A q \in Procs \ {p} :
        /\ pc[p] = "FileNotFoundError" =>
              /\ output(p) \notin DOMAIN fs
              /\ outputname[q] = outputname[p]
              /\ batch_no[q] > batch_no[p]
        /\ \A f \in Bz2FilesOf(p) :
              \E n \in 1..batch_no[p] :
                  /\ f = ChunkFileName(outputname[p], n)
                  /\ ChunkFileRows(f) \in {Batch(p, n), Batch(q, n)}

\* Invocation 2 overwrote batch 1's .csv before invocation 1 compressed it:
\* invocation 1 returned with its first .csv.bz2 holding invocation 2's batch, and
\* invocation 2 failed on the .csv that invocation 1 removed.
C9_Witness ==
    /\ pc[1] = "done"
    /\ pc[2] = "FileNotFoundError"
    /\ batch_no[2] = 1
    /\ ChunkFileName(outputname[1], 1) \in Bz2FilesOf(1)
    /\ ChunkFileRows(ChunkFileName(outputname[1], 1)) = Batch(2, 1)
    /\ Batch(2, 1) # Batch(1, 1)

\* ------------------------------------------- find_csv_filenames, get_quotes
\* All orders of a finite set
Orders(S) == {l \in [1..Cardinality(S) -> S] : \A i, j \in 1..Cardinality(S) : l[i] = l[j] => i = j}

\* os.listdir(path_to_dir): the names of the directory's files, in any order
listdir(path_to_dir) ==
    Orders({SubSeq(f, Len(path_to_dir) + 1, Len(f)) : f \in {g \in DOMAIN fs : startswith(g, path_to_dir)}})

\* Variant: the year left out of the prefix
find_csv_filenames_any_year(filenames, year) ==
    SelectSeq(filenames, LAMBDA filename : startswith(filename, <<"q", "u", "o", "t", "e", "s", "-">>))

\* lines 57-58, given the listing os.listdir returned
find_csv_filenames(filenames, year) ==
    SelectSeq(filenames,
              LAMBDA filename :
                  startswith(filename, <<"q", "u", "o", "t", "e", "s", "-">> \o str(year) \o <<"-">>))

\* pd.read_csv(path): the compression is inferred from the extension
read_csv(path) ==
    IF endswith(path, ExtBz2)
    THEN read_csv_text(bz2_decompress(fs[path].data))
    ELSE read_csv_text(fs[path].data)

\* df[df[column] == value]
WhereEquals(df, column, value) ==
    [cols |-> df.cols, rows |-> SelectSeq(df.rows, LAMBDA row : row[ColIndex(df, column)] = value)]

\* pd.concat([a, b], axis=0) of frames with the same columns
concat(a, b) == [cols |-> a.cols, rows |-> a.rows \o b.rows]

\* lines 75-79: the loop over file_arr[i], i = from..N-1 (0-based), on df_all
RECURSIVE get_quotes_loop(_, _, _, _)
get_quotes_loop(df_all, file_arr, i, speaker) ==
    IF i > Len(file_arr)
    THEN df_all
    ELSE get_quotes_loop(
             concat(df_all, WhereEquals(read_csv(DataDir \o file_arr[i]), "speaker", speaker)),
             file_arr, i + 1, speaker)

\* What a call gives back: the DataFrame it returns, or the exception it raises
NoFrame == [cols |-> <<>>, rows |-> <<>>]
Returned(df) == [raised |-> "", df |-> df]

\* Variant: the loop starts one file late
get_quotes_skip_second(filenames, speaker, year) ==
    LET file_arr == find_csv_filenames(filenames, year)
    IN IF Len(file_arr) = 0
       THEN [raised |-> "IndexError", df |-> NoFrame]
       ELSE Returned(get_quotes_loop(WhereEquals(read_csv(DataDir \o file_arr[1]), "speaker", speaker),
                            file_arr, 3, speaker))

\* lines 68-85, given the listing os.listdir returned; file_arr[0] of an empty
\* array raises IndexError
get_quotes(filenames, speaker, year) ==
    LET file_arr == find_csv_filenames(filenames, year)
    IN IF Len(file_arr) = 0
       THEN [raised |-> "IndexError", df |-> NoFrame]
       ELSE Returned(get_quotes_loop(WhereEquals(read_csv(DataDir \o file_arr[1]), "speaker", speaker),
                            file_arr, 2, speaker))

\* The years and speakers asked for; a run is one call on one directory
Years == {2020, 2021, 202}
Speakers == {"A", "a", "B"}

FindCsvFilenames ==
    /\ call = NoCall
    /\ \E year \in Years : \E filenames \in listdir(DataDir) :
           call' = [fn |-> "find_csv_filenames", year |-> year, listing |-> filenames,
                    ret |-> find_csv_filenames(filenames, year)]
    /\ UNCHANGED <<fs, chunkVars, tableVars>>

GetQuotes ==
    /\ call = NoCall
    /\ \E speaker \in Speakers : \E year \in Years : \E filenames \in listdir(DataDir) :
           call' = [fn |-> "get_quotes", speaker |-> speaker, year |-> year,
                    listing |-> filenames, ret |-> get_quotes(filenames, speaker, year)]
    /\ UNCHANGED <<fs, chunkVars, tableVars>>

\* The file names a Data/ directory may hold
Name_quotes_2020_1 == <<"q", "u", "o", "t", "e", "s", "-", "2", "0", "2", "0", "-", "1">> \o ExtCsv \o ExtBz2
Name_quotes_2020_2 == <<"q", "u", "o", "t", "e", "s", "-", "2", "0", "2", "0", "-", "2">> \o ExtCsv \o ExtBz2
Name_quotes_2021_1 == <<"q", "u", "o", "t", "e", "s", "-", "2", "0", "2", "1", "-", "1">> \o ExtCsv \o ExtBz2
Name_other_2020_1 == <<"o", "t", "h", "e", "r", "-", "2", "0", "2", "0", "-", "1">> \o ExtCsv \o ExtBz2
Name_quotes_20201 == <<"q", "u", "o", "t", "e", "s", "-", "2", "0", "2", "0", "1">> \o ExtCsv \o ExtBz2

ScanNames ==
    {Name_quotes_2020_1, Name_quotes_2020_2, Name_quotes_2021_1, Name_other_2020_1, Name_quotes_20201}

\* The tables the chunk files may hold
ScanTables ==
    {[cols |-> ChunkCols, rows |-> rows] :
        rows \in {<<>>,
                  <<<<"q1", "A">>, <<"q2", "B">>>>,
                  <<<<"q3", "B">>, <<"q4", "A">>, <<"q5", "a">>>>,
                  <<<<"q6", "B">>>>}}

\* Data/ holds chunk files written by chunkify
ScanDirs ==
    UNION {[{DataDir \o n : n \in names} ->
               {[data |-> bz2_compress(to_csv(t), compression_level), by |-> 0] : t \in ScanTables}] :
           names \in {ns \in SUBSET ScanNames : Cardinality(ns) <= MaxFiles}}

ChunkIdle ==
    /\ pc = [p \in Procs |-> "off"]
    /\ source = [p \in Procs |-> <<>>]
    /\ chunk_size = [p \in Procs |-> 1]
    /\ outputname = [p \in Procs |-> <<>>]
    /\ batch_no = [p \in Procs |-> 1]
    /\ reader = [p \in Procs |-> 0]
    /\ chunk = [p \in Procs |-> [cols |-> <<>>, rows |-> <<>>]]
    /\ compressed = [p \in Procs |-> <<>>]

InitScan == fs \in ScanDirs /\ ChunkIdle /\ NoTables /\ call = NoCall
NextScan == FindCsvFilenames \/ GetQuotes
SpecScan == InitScan /\ [][NextScan]_vars

\* ------------------------------------ find_csv_filenames, get_quotes: claims
\* str(year) of the years asked for, written out
YearText(year) ==
    CASE year = 2020 -> <<"2", "0", "2", "0">>
      [] year = 2021 -> <<"2", "0", "2", "1">>
      [] year = 202 -> <<"2", "0", "2">>

\* The name starts with 'quotes-<year>-'
IsYearFile(name, year) ==
    LET prefix == <<"q", "u", "o", "t", "e", "s", "-">> \o YearText(year) \o <<"-">>
    IN /\ Len(name) >= Len(prefix)
       /\ \A i \in 1..Len(prefix) : name[i] = prefix[i]

\* Where a name stands in a listing without repetitions
IndexIn(l, x) == CHOOSE i \in 1..Len(l) : l[i] = x

\* C3: find_csv_filenames returns exactly the listed names that start with
\* 'quotes-<year>-', each once, in the listing's order.
C3_ScanExactlyYearFiles ==
    call.fn = "find_csv_filenames" =>
        /\ Range(call.ret) = {n \in Range(call.listing) : IsYearFile(n, call.year)}
        /\ \A i, j \in 1..Len(call.ret) :
              i < j => IndexIn(call.listing, call.ret[i]) < IndexIn(call.listing, call.ret[j])

\* Year 2020 over quotes-2020-1, quotes-2021-1 and other-2020-1 gave quotes-2020-1
C3_Witness ==
    /\ call.fn = "find_csv_filenames"
    /\ call.year = 2020
    /\ Range(call.listing) = {Name_quotes_2020_1, Name_quotes_2021_1, Name_other_2020_1}
    /\ call.ret = <<Name_quotes_2020_1>>

\* The rows of a chunk file of Data/
ScanFileRows(name) == bz2_decompress(fs[<<"D", "a", "t", "a", "/">> \o name].data)

\* C4: with a chunk file for the year, get_quotes returns the rows whose speaker
\* is exactly the given one: file after file in scanner order, in each file's
\* row order, every such row once and no other row.
C4_ExactSpeakerRows ==
    (call.fn = "get_quotes" /\ find_csv_filenames(call.listing, call.year) # <<>>) =>
        LET files == find_csv_filenames(call.listing, call.year)
        IN /\ call.ret.raised = ""
           /\ call.ret.df.rows =
                 Flatten([i \in 1..Len(files) |->
                             SelectSeq(Tail(ScanFileRows(files[i])),
                                       LAMBDA row : row[2] = call.speaker)])

\* Speaker "A" over two files of the year, the rows coming from the second file,
\* which also holds rows of "B" and of "a"
C4_Witness ==
    /\ call.fn = "get_quotes"
    /\ call.speaker = "A"
    /\ Len(find_csv_filenames(call.listing, call.year)) = 2
    /\ call.ret.raised = ""
    /\ call.ret.df.rows = <<<<"q4", "A">>>>

\* ------------------------------------------------------------ table values
\* A float is <<m, e>>, the number m / 10^e in lowest terms (e >= 0); NaN has e = -1
NaN == <<0, 0 - 1>>

IsNaN(x) == x[2] < 0

RECURSIVE Pow10(_)
Pow10(e) == IF e = 0 THEN 1 ELSE 10 * Pow10(e - 1)

RECURSIVE Normal(_)
Normal(x) == IF x[2] > 0 /\ x[1] % 10 = 0 THEN Normal(<<x[1] \div 10, x[2] - 1>>) ELSE x

\* Variant: x > y
FloatGT(x, y) == ~IsNaN(x) /\ ~IsNaN(y) /\ x[1] * Pow10(y[2]) > y[1] * Pow10(x[2])

\* x >= y on floats; any comparison with NaN is False
FloatGE(x, y) == ~IsNaN(x) /\ ~IsNaN(y) /\ x[1] * Pow10(y[2]) >= y[1] * Pow10(x[2])

\* df[name] as the sequence of its values
Column(df, name) == [i \in 1..Len(df.rows) |-> df.rows[i][ColIndex(df, name)]]

\* df[name] = values: overwrites the column when there is one, else adds it last
SetColumn(df, name, values) ==
    IF ColIndex(df, name) = 0
    THEN [cols |-> Append(df.cols, name),
          rows |-> [i \in 1..Len(df.rows) |-> Append(df.rows[i], values[i])]]
    ELSE [cols |-> df.cols,
          rows |-> [i \in 1..Len(df.rows) |-> [df.rows[i] EXCEPT ![ColIndex(df, name)] = values[i]]]]

\* A call's effect on the caller: the argument table after the call, the table
\* returned, the exception raised
Effect(arg, ret) == [arg |-> arg, ret |-> ret, raised |-> ""]
Raises(arg, exc) == [arg |-> arg, ret |-> NoFrame, raised |-> exc]

\* The call is recorded and its result joins the caller's tables
Called(fn, t, params, before, e) ==
    /\ heap' = IF e.raised = "" THEN Append([heap EXCEPT ![t] = e.arg], e.ret) ELSE heap
    /\ call' = [fn |-> fn, arg |-> t, params |-> params, before |-> before,
                raised |-> e.raised, ret |-> IF e.raised = "" THEN Len(heap) + 1 ELSE 0]
    /\ UNCHANGED <<fs, chunkVars, spacy_nlp, sid>>

\* -------------------------------------------------- high_probability_quotes
IsDigit(c) == \E d \in 0..9 : Digits[d + 1] = c

DigitValue(c) == CHOOSE d \in 0..9 : Digits[d + 1] = c

\* re.search(r'([\d][.][\d]*)', s): where the leftmost match starts (0: no match)
RECURSIVE MatchStart(_, _)
MatchStart(s, i) ==
    IF i + 1 > Len(s) THEN 0
    ELSE IF IsDigit(s[i]) /\ s[i + 1] = "." THEN i
    ELSE MatchStart(s, i + 1)

\* [\d]* from position j: how many digits follow
RECURSIVE DigitRun(_, _)
DigitRun(s, j) == IF j <= Len(s) /\ IsDigit(s[j]) THEN 1 + DigitRun(s, j + 1) ELSE 0

\* The digits of a sequence as a number
RECURSIVE Number(_)
Number(ds) == IF ds = <<>> THEN 0 ELSE 10 * Number(SubSeq(ds, 1, Len(ds) - 1)) + DigitValue(ds[Len(ds)])

\* line 119: .str.extract(r'([\d][.][\d]*)').astype('float') of one string
extract_float(s) ==
    LET i == MatchStart(s, 1)
        n == DigitRun(s, i + 2)
    IN IF i = 0 THEN NaN
       ELSE Normal(<<DigitValue(s[i]) * Pow10(n) + Number(SubSeq(s, i + 2, i + 1 + n)), n>>)

\* line 121: df['probasE'] >= cutoff
AtLeast(x, cutoff) == FloatGE(x, cutoff)

\* lines 119-121
high_probability_quotes(df, cutoff) ==
    IF ColIndex(df, "probas") = 0
    THEN Raises(df, "KeyError")
    ELSE LET probas == Column(df, "probas")
             df2 == SetColumn(df, "probasE", [i \in 1..Len(df.rows) |-> extract_float(probas[i])])
         IN Effect(df2,
                   [cols |-> df2.cols,
                    rows |-> SelectSeq(df2.rows,
                                       LAMBDA row : AtLeast(row[ColIndex(df2, "probasE")], cutoff))])

HighProbabilityQuotes(cutoffs) ==
    /\ Len(heap) <= MaxCalls
    /\ \E t \in DOMAIN heap : \E cutoff \in cutoffs :
           Called("high_probability_quotes", t, <<cutoff>>, heap[t],
                  high_probability_quotes(heap[t], cutoff))

\* The probas strings tried, shortened from "[['Elon Musk', '0.85'], ...]"
P085 == <<"[", "A", ",", "0", ".", "8", "5", "]">>
P05 == <<"[", "B", ",", "0", ".", "5", "]">>
PNone == <<"[", "N", "o", "n", "e", "]">>
PInt == <<"[", "C", ",", "1", "]">>
P125 == <<"[", "D", ",", "1", "2", ".", "5", "]">>
P1dot == <<"1", ".">>
PDot5 == <<".", "5">>
PTwo == <<"[", "A", "2", ".", "0", ",", "0", ".", "9", "]">>
P080 == <<"0", ".", "8", "0">>

ProbasPool == {P085, P05, PNone, PInt, P125, P1dot, PDot5, PTwo, P080}

\* 0.5, 0.8, 0.85, 1.0, 2.5
Cutoffs == {<<5, 1>>, <<8, 1>>, <<85, 2>>, <<1, 0>>, <<25, 1>>}

ProbTables ==
    {[cols |-> <<"quoteID", "probas">>, rows |-> [i \in 1..Len(ps) |-> <<str(i), ps[i]>>]] :
        ps \in SeqUpTo(ProbasPool, MaxTable)}

InitProb ==
    /\ fs = <<>> /\ ChunkIdle /\ call = NoCall
    /\ spacy_nlp = <<>> /\ sid = <<>>
    /\ heap \in {<<df>> : df \in ProbTables}
NextProb == call = NoCall /\ HighProbabilityQuotes(Cutoffs)
SpecProb == InitProb /\ [][NextProb]_vars

\* ------------------------------------------ high_probability_quotes: claims
\* The first number the pattern takes from each probas string tried (digit, '.',
\* digits), read off by hand: 12.5 gives 2.5, and 1, .5 and None give none
FirstNumber(s) ==
    CASE s = P085 -> <<85, 2>>
      [] s = P05 -> <<5, 1>>
      [] s = P125 -> <<25, 1>>
      [] s = P1dot -> <<1, 0>>
      [] s = PTwo -> <<2, 0>>
      [] s = P080 -> <<8, 1>>
      [] OTHER -> <<0, 0 - 1>>

HasDigit(s) == \E i \in 1..Len(s) : s[i] \in {"0", "1", "2", "3", "4", "5", "6", "7", "8", "9"}

add_polarity_score_to_df_inplace(analyzer, df) ==
    IF ColIndex(df, "quotation") = 0
    THEN Raises(df, "KeyError")
    ELSE LET quotations == Column(df, "quotation")
             df_copy == SetColumn(df, "sentiment",
                                  [i \in 1..Len(df.rows) |-> analyzer[quotations[i]]])
         IN Effect(df_copy, df_copy)

\* lines 190-194; sid.polarity_scores(quotation)['compound'] is analyzer[quotation]
add_polarity_score_to_df(analyzer, df) ==
    IF ColIndex(df, "quotation") = 0
    THEN Raises(df, "KeyError")
    ELSE LET df_copy == df
             quotations == Column(df_copy, "quotation")
         IN Effect(df, SetColumn(df_copy, "sentiment",
                                 [i \in 1..Len(df_copy.rows) |-> analyzer[quotations[i]]]))

\* Variant: the thresholds themselves are neutral
categorize_open(score, neg_treshhold, pos_treshhold) ==
    IF score < neg_treshhold THEN 0 - 1
    ELSE IF score > pos_treshhold THEN 1
    ELSE 0

\* lines 211-217
categorize(score, neg_treshhold, pos_treshhold) ==
    IF score <= neg_treshhold THEN 0 - 1
    ELSE IF score >= pos_treshhold THEN 1
    ELSE 0

\* lines 219-221
add_sentiment_category(df, neg_treshhold, pos_treshhold) ==
    IF ColIndex(df, "sentiment") = 0
    THEN Raises(df, "KeyError")
    ELSE LET df_copy == df
             sentiment == Column(df_copy, "sentiment")
         IN Effect(df, SetColumn(df_copy, "sentiment_category",
                                 [i \in 1..Len(df_copy.rows) |->
                                     categorize(sentiment[i], neg_treshhold, pos_treshhold)]))

AddPolarityScoreToDf ==
    /\ Len(heap) <= MaxCalls
    /\ \E t \in DOMAIN heap :
           Called("add_polarity_score_to_df", t, <<>>, heap[t],
                  add_polarity_score_to_df(sid, heap[t]))

AddSentimentCategory(thresholds) ==
    /\ Len(heap) <= MaxCalls
    /\ \E t \in DOMAIN heap : \E neg \in thresholds : \E pos \in thresholds :
           Called("add_sentiment_category", t, <<neg, pos>>, heap[t],
                  add_sentiment_category(heap[t], neg, pos))

\* The scores and thresholds tried: -0.2, -0.05, 0.0, 0.05, 0.2
Scores == {0 - 20, 0 - 5, 0, 5, 20}
Thresholds == {0 - 5, 0, 5}

SentTables ==
    {[cols |-> <<"quotation", "sentiment">>, rows |-> [i \in 1..Len(ss) |-> <<"Qa", ss[i]>>]] :
        ss \in SeqUpTo(Scores, MaxTable)}

InitSent ==
    /\ fs = <<>> /\ ChunkIdle /\ call = NoCall
    /\ spacy_nlp = <<>> /\ sid = <<>>
    /\ heap \in {<<df>> : df \in SentTables}
NextSent == call = NoCall /\ AddSentimentCategory(Thresholds)
SpecSent == InitSent /\ [][NextSent]_vars

\* --------------------------------------------- add_sentiment_category: claims
\* The scores and the categories of the table a call returned, row by row
CategoryRows == heap[call.ret].rows

Categorized == call.fn = "add_sentiment_category" /\ call.raised = "" /\ call.params[1] <= call.params[2]

\* C6 as stated: with negative threshold <= positive threshold, every score <=
\* the negative threshold gets -1, every score >= the positive threshold gets 1,
\* every score strictly between gets 0.
C6_AsStated ==
    Categorized =>
        \A i \in 1..Len(CategoryRows) :
            LET score == CategoryRows[i][2]
                category == CategoryRows[i][3]
            IN /\ score <= call.params[1] => category = 0 - 1
               /\ score >= call.params[2] => category = 1
               /\ (call.params[1] < score /\ score < call.params[2]) => category = 0

\* C6, amended: with negative threshold <= positive threshold, every score <= the
\* negative threshold gets -1, every score >= the positive threshold that is above
\* the negative threshold gets 1, every score strictly between gets 0.
C6_Amended ==
    Categorized =>
        \A i \in 1..Len(CategoryRows) :
            LET score == CategoryRows[i][2]
                category == CategoryRows[i][3]
            IN /\ score <= call.params[1] => category = 0 - 1
               /\ (score >= call.params[2] /\ score > call.params[1]) => category = 1
               /\ (call.params[1] < score /\ score < call.params[2]) => category = 0

\* Thresholds -0.05 and 0.05 over the scores -0.05 and 0.05: categories -1 and 1
C6_Witness ==
    /\ Categorized
    /\ call.params = <<0 - 5, 5>>
    /\ CategoryRows = <<<<"Qa", 0 - 5, 0 - 1>>, <<"Qa", 5, 1>>>>

\* ------------------------------------------------------------ create_org_df
\* The keys of the dictionaries of quote_list, in order (lines 146-151)
OrgCols == <<"ORG", "date", "numOccurrences", "quotation", "quoteID", "probas">>

\* line 143: if element.label_ == 'ORG'
IsOrg(element) == element.label_ = "ORG"

\* lines 141-151: the dictionaries one row adds to quote_list
RECURSIVE RowOrgs(_, _, _)
RowOrgs(df, i, ents) ==
    IF ents = <<>> THEN <<>>
    ELSE (IF IsOrg(Head(ents))
          THEN <<<<Head(ents).text,
                   df.rows[i][ColIndex(df, "date")],
                   df.rows[i][ColIndex(df, "numOccurrences")],
                   df.rows[i][ColIndex(df, "quotation")],
                   df.rows[i][ColIndex(df, "quoteID")],
                   df.rows[i][ColIndex(df, "probas")]>>>>
          ELSE <<>>) \o RowOrgs(df, i, Tail(ents))

\* lines 136-151: quote_list after rows i..N
RECURSIVE QuoteList(_, _, _)
QuoteList(nlp, df, i) ==
    IF i > Len(df.rows) THEN <<>>
    ELSE RowOrgs(df, i, nlp[df.rows[i][ColIndex(df, "quotation")]]) \o QuoteList(nlp, df, i + 1)

\* line 156: DataFrame.drop_duplicates() keeps the first of equal rows
RECURSIVE drop_duplicates(_)
drop_duplicates(rows) ==
    IF rows = <<>> THEN <<>>
    ELSE LET front == drop_duplicates(SubSeq(rows, 1, Len(rows) - 1))
             last == rows[Len(rows)]
         IN IF \E k \in 1..Len(front) : front[k] = last THEN front ELSE Append(front, last)

\* line 154: pd.DataFrame.from_dict(quote_list); an empty list gives no columns
from_dict(quote_list) ==
    [cols |-> IF quote_list = <<>> THEN <<>> ELSE OrgCols, rows |-> quote_list]

\* Variant: without drop_duplicates
create_org_df_keep_duplicates(nlp, df) ==
    IF (ColIndex(df, "quotation") = 0 /\ Len(df.rows) > 0)
       \/ (\E c \in {"date", "numOccurrences", "quoteID", "probas"} :
              /\ ColIndex(df, c) = 0
              /\ \E i \in 1..Len(df.rows) :
                    \E k \in 1..Len(nlp[df.rows[i][ColIndex(df, "quotation")]]) :
                        IsOrg(nlp[df.rows[i][ColIndex(df, "quotation")]][k]))
    THEN Raises(df, "KeyError")
    ELSE Effect(df, from_dict(QuoteList(nlp, df, 1)))

\* lines 131-162; df.iloc[i][column] raises KeyError for a column df lacks
create_org_df(nlp, df) ==
    IF (ColIndex(df, "quotation") = 0 /\ Len(df.rows) > 0)
       \/ (\E c \in {"date", "numOccurrences", "quoteID", "probas"} :
              /\ ColIndex(df, c) = 0
              /\ \E i \in 1..Len(df.rows) :
                    \E k \in 1..Len(nlp[df.rows[i][ColIndex(df, "quotation")]]) :
                        IsOrg(nlp[df.rows[i][ColIndex(df, "quotation")]][k]))
    THEN Raises(df, "KeyError")
    ELSE LET org_df == from_dict(QuoteList(nlp, df, 1))
         IN Effect(df, [cols |-> org_df.cols, rows |-> drop_duplicates(org_df.rows)])

CreateOrgDf ==
    /\ Len(heap) <= MaxCalls
    /\ \E t \in DOMAIN heap :
           Called("create_org_df", t, <<>>, heap[t], create_org_df(spacy_nlp, heap[t]))

\* The quote tables tried
QuoteCols == <<"quoteID", "quotation", "date", "numOccurrences", "probas">>
QuoteRowPool ==
    {<<"q1", "Qa", "d1", 1, P085>>, <<"q2", "Qb", "d1", 2, P05>>, <<"q3", "Qa", "d2", 1, PNone>>}
QuoteTables == {[cols |-> QuoteCols, rows |-> rows] : rows \in SeqUpTo(QuoteRowPool, MaxTable)}
Quotations == {"Qa", "Qb"}

\* The recognizer outputs tried
EntityPool ==
    {[text |-> "Tesla", label_ |-> "ORG"], [text |-> "SpaceX", label_ |-> "ORG"],
     [text |-> "Tesla", label_ |-> "PERSON"]}
Recognizers == [Quotations -> SeqUpTo(EntityPool, MaxEnts)]

InitOrg ==
    /\ fs = <<>> /\ ChunkIdle /\ call = NoCall
    /\ spacy_nlp \in Recognizers
    /\ sid = <<>>
    /\ heap \in {<<df>> : df \in QuoteTables}
NextOrg == call = NoCall /\ CreateOrgDf
SpecOrg == InitOrg /\ [][NextOrg]_vars

\* ----------------------------------------------------- create_org_df: claims
\* The row an ORG entity of input row i must give
OrgRowOf(e, row) == <<e.text, row[3], row[4], row[2], row[1], row[5]>>

\* C7: the table create_org_df returns has the row (ORG text, date,
\* numOccurrences, quotation, quoteID, probas) of every entity tagged ORG of every
\* quote, no other row, and no row twice.
C7_OneRowPerOrgMention ==
    (call.fn = "create_org_df" /\ call.raised = "") =>
        LET out == heap[call.ret].rows
            inp == call.before.rows
            orgs(i) == {e \in Range(spacy_nlp[inp[i][2]]) : e.label_ = "ORG"}
        IN /\ Range(out) = UNION {{OrgRowOf(e, inp[i]) : e \in orgs(i)} : i \in 1..Len(inp)}
           /\ \A j, k \in 1..Len(out) : out[j] = out[k] => j = k

\* "Tesla Tesla" in one quote gave one row; SpaceX beside a person named Tesla in
\* the other quote gave one row
C7_Witness ==
    /\ call.fn = "create_org_df"
    /\ spacy_nlp["Qa"] = <<[text |-> "Tesla", label_ |-> "ORG"], [text |-> "Tesla", label_ |-> "ORG"]>>
    /\ spacy_nlp["Qb"] = <<[text |-> "Tesla", label_ |-> "PERSON"], [text |-> "SpaceX", label_ |-> "ORG"]>>
    /\ call.before.rows = <<<<"q1", "Qa", "d1", 1, P085>>, <<"q2", "Qb", "d1", 2, P05>>>>
    /\ heap[call.ret].rows = <<<<"Tesla", "d1", 1, "Qa", "q1", P085>>, <<"SpaceX", "d1", 2, "Qb", "q2", P05>>>>

\* ------------------------------------------- the table functions in sequence
\* One recognizer and one analyzer; the caller starts with one quote table and
\* calls the four table functions on it and on what they return
FrameRecognizer ==
    [q \in Quotations |->
        IF q = "Qa" THEN <<[text |-> "Tesla", label_ |-> "ORG"], [text |-> "Tesla", label_ |-> "ORG"]>>
        ELSE <<[text |-> "Tesla", label_ |-> "PERSON"], [text |-> "SpaceX", label_ |-> "ORG"]>>]
FrameAnalyzer == [q \in Quotations |-> IF q = "Qa" THEN 5 ELSE 0 - 20]

InitFrame ==
    /\ fs = <<>> /\ ChunkIdle /\ call = NoCall
    /\ spacy_nlp = FrameRecognizer
    /\ sid = FrameAnalyzer
    /\ heap \in {<<df>> : df \in QuoteTables}
NextFrame ==
    \/ HighProbabilityQuotes({<<8, 1>>})
    \/ CreateOrgDf
    \/ AddPolarityScoreToDf
    \/ AddSentimentCategory({0})
SpecFrame == InitFrame /\ [][NextFrame]_vars

\* --------------------------------------------------- the caller's tables: claims
\* Table t keeps its rows, their order and the values of every column it has
KeepsColumns(t) ==
    /\ Len(heap'[t].rows) = Len(heap[t].rows)
    /\ Len(heap'[t].cols) >= Len(heap[t].cols)
    /\ \A c \in 1..Len(heap[t].cols) :
          /\ heap'[t].cols[c] = heap[t].cols[c]
          /\ \A i \in 1..Len(heap[t].rows) : heap'[t].rows[i][c] = heap[t].rows[i][c]

\* C10: no call changes a table of the caller other than by adding a column: every
\* table keeps its rows, their order and every column's values; only
\* high_probability_quotes touches its argument, which gets (or gets again) the
\* column probasE and loses no row; the other three leave every table as it was.
C10_InputTablesKept ==
    [][\A t \in DOMAIN heap :
          /\ KeepsColumns(t)
          /\ heap'[t] # heap[t] =>
                /\ call'.fn = "high_probability_quotes"
                /\ call'.arg = t
                /\ heap'[t].cols = Append(heap[t].cols, "probasE")]_vars

\* high_probability_quotes dropped a row in the table it returned while its
\* argument kept its rows and got probasE; add_polarity_score_to_df was then
\* called on that argument and add_sentiment_category on the scored copy, and the
\* argument has neither sentiment column
C10_Witness ==
    /\ Len(heap) = 4
    /\ call.fn = "add_sentiment_category" /\ call.raised = "" /\ call.arg = 3
    /\ heap[1].cols = Append(QuoteCols, "probasE")
    /\ Len(heap[1].rows) = 2
    /\ Len(heap[2].rows) = 1
    /\ heap[3].cols = Append(heap[1].cols, "sentiment")
    /\ heap[4].cols = Append(heap[3].cols, "sentiment_category")

\* ------------------------------------------ make_csv, combining_yearly_quotes
\* DataFrame.to_csv(path): the compression is inferred from the extension
gzip_compress(data) == [magic |-> "gzip", payload |-> data]

to_csv_file(df, path) ==
    IF endswith(path, ExtBz2) THEN bz2_compress(to_csv(df), compression_level)
    ELSE IF endswith(path, <<".", "g", "z">>) THEN gzip_compress(to_csv(df))
    ELSE to_csv(df)

\* line 91: 'Data/' + speaker + '-quotes-' + str(year) + '.csv.' + compression
YearlyPath(speaker, year, compression) ==
    DataDir \o speaker \o <<"-", "q", "u", "o", "t", "e", "s", "-">> \o str(year)
        \o ExtCsv \o <<".">> \o compression

\* line 112: path + 'all-' + speaker + '-quotes.csv.bz2'
CombinedPath(speaker) ==
    DataDir \o <<"a", "l", "l", "-">> \o speaker \o <<"-", "q", "u", "o", "t", "e", "s">>
        \o ExtCsv \o ExtBz2

\* line 101: glob.glob(path + speaker + "*.bz2"): the paths of Data/ that start
\* with path + speaker and end in .bz2, in any order
glob_speaker(path, speaker) ==
    Orders({f \in DOMAIN fs :
               /\ startswith(f, path \o speaker)
               /\ endswith(f, ExtBz2)
               /\ Len(f) >= Len(path) + Len(speaker) + Len(ExtBz2)})

\* lines 104-110: the frames of all_files, concatenated
RECURSIVE concat_files(_)
concat_files(all_files) ==
    IF Len(all_files) = 1 THEN read_csv(all_files[1])
    ELSE concat(concat_files(SubSeq(all_files, 1, Len(all_files) - 1)),
                read_csv(all_files[Len(all_files)]))

\* The speakers, years and compressions tried
CombineSpeakers == {<<"E", "l", "o", "n">>, <<"E", "l", "o", "n", " ", "M">>, <<"B", "o", "b">>}
CombineYears == {2020, 2021}
Compressions == {<<"b", "z", "2">>, <<"g", "z">>}

\* The quotes of a speaker in a year, as get_quotes returns them
SpeakerQuotes(speaker, year) ==
    [cols |-> ChunkCols, rows |-> <<<<<<"q">> \o str(year), speaker>>>>]

\* lines 87-91
MakeCsv ==
    /\ \E speaker \in CombineSpeakers : \E year \in CombineYears : \E compression \in Compressions :
           LET path == YearlyPath(speaker, year, compression)
           IN /\ Cardinality(DOMAIN fs \cup {path}) <= MaxFiles
              /\ fs' = WriteFile(path, to_csv_file(SpeakerQuotes(speaker, year), path), 0)
              /\ call' = [fn |-> "make_csv", speaker |-> speaker, all_files |-> <<>>, raised |-> ""]
    /\ UNCHANGED <<chunkVars, tableVars>>

\* lines 93-112; pd.concat of an empty list raises ValueError
CombiningYearlyQuotes ==
    /\ \E speaker \in CombineSpeakers : \E all_files \in glob_speaker(DataDir, speaker) :
           IF all_files = <<>>
           THEN /\ call' = [fn |-> "combining_yearly_quotes", speaker |-> speaker,
                            all_files |-> all_files, raised |-> "ValueError"]
                /\ UNCHANGED fs
           ELSE /\ fs' = WriteFile(CombinedPath(speaker),
                                   to_csv_file(concat_files(all_files), CombinedPath(speaker)), 0)
                /\ call' = [fn |-> "combining_yearly_quotes", speaker |-> speaker,
                            all_files |-> all_files, raised |-> ""]
    /\ UNCHANGED <<chunkVars, tableVars>>

InitCombine == fs = <<>> /\ ChunkIdle /\ NoTables /\ call = NoCall
NextCombine == MakeCsv \/ CombiningYearlyQuotes
SpecCombine == InitCombine /\ [][NextCombine]_vars

\* ------------------------------------------- combining_yearly_quotes: claims
\* 'Data/<speaker>-quotes-<year>.csv.bz2' for one of the years
IsYearlyFileOf(f, speaker) ==
    \E year \in CombineYears :
        f = <<"D", "a", "t", "a", "/">> \o speaker \o <<"-", "q", "u", "o", "t", "e", "s", "-">>
               \o YearText(year) \o <<".", "c", "s", "v", ".", "b", "z", "2">>

\* C8 as stated: the files combining_yearly_quotes(speaker) matches are only that
\* speaker's per-year files, and the combined file holds their rows in glob order
\* and no row of another speaker's file.
C8_AsStated ==
    (call.fn = "combining_yearly_quotes" /\ call.raised = "") =>
        LET combined == read_csv(CombinedPath(call.speaker)).rows
        IN /\ \A i \in 1..Len(call.all_files) : IsYearlyFileOf(call.all_files[i], call.speaker)
           /\ combined = Flatten([i \in 1..Len(call.all_files) |-> read_csv(call.all_files[i]).rows])
           /\ \A i \in 1..Len(combined) : combined[i][2] = call.speaker

====
